---- MODULE Spec2Model ----
(***************************************************************************)
(* The chat handler of src/app/api/chat/route.ts: context assembly, the    *)
(* tool-call loop with its round memo, the three tool executors with       *)
(* their confirmation gate, the tool result cache and the conversation     *)
(* store of src/utils/memory.ts.                                           *)
(*                                                                         *)
(* Texts are abstract tokens.  JSON scalars are tokens ("true", "false",   *)
(* "null", "0", "''" for the empty string, other strings as they are),     *)
(* JSON objects are records with exactly the members that are present.     *)
(***************************************************************************)
EXTENDS Integers, Sequences, FiniteSets, TLC

\* ------------------------------------------------------------- bounds
\* Most tool calls the model puts into one assistant message.
MaxCalls == 2
\* Most messages a caller sends in one request (context specification).
MaxMsgs == 2
\* CHAT_MAX_CONTEXT and CHAT_MAX_STORED as configured for the runs
\* (route.ts:32-33 read them from the environment; the defaults are 16, 64).
MAX_CONTEXT_MESSAGES == 3
MAX_STORED_MESSAGES == 4

\* The find_content calls that run side by side in the cache runs.
MaxFinds == 2
\* The steps the clock makes in the cache runs.
MaxTicks == 3

\* ---------------------------------------------------------- constants
\* The limit of the while loop, route.ts:630 (safetyCounter < 5).
MaxRounds == 5
\* route.ts:18
TOOL_CACHE_TTL_MS == 5000
\* One step of the clock: half the TTL.
TickMs == TOOL_CACHE_TTL_MS \div 2

\* ------------------------------------------------------------ helpers
Max(a, b) == IF a >= b THEN a ELSE b

\* Array.prototype.slice(-k) for k >= 1: the last k elements.
SliceLast(s, k) ==
    IF k >= Len(s) THEN s ELSE SubSeq(s, Len(s) - k + 1, Len(s))

\* JavaScript truthiness of a JSON scalar token; "undefined" is an absent
\* member.
Truthy(tok) == tok \notin {"undefined", "null", "false", "0", "''"}

\* args.member, "undefined" when the member is absent.
Member(obj, f) == IF f \in DOMAIN obj THEN obj[f] ELSE "undefined"

\* ---------------------------------------------------------- messages
\* A text is a sequence of tokens: a piece of plain text, or a markdown link
\* [label](url).  The empty text is the empty sequence.
Text(s) == [text |-> s]

Link(label, url) == [label |-> label, url |-> url]

Str(s) == <<Text(s)>>

Msg(role, content) == [role |-> role, content |-> content]

SYSTEM_PROMPT == Str("SYSTEM_PROMPT")

AssistantMsg(content, calls) ==
    IF Len(calls) = 0
    THEN [role |-> "assistant", content |-> content]
    ELSE [role |-> "assistant", content |-> content, tool_calls |-> calls]

\* assistantMessage.tool_calls, the empty list when the member is absent.
ToolCallsOf(m) == IF "tool_calls" \in DOMAIN m THEN m.tool_calls ELSE <<>>

\* A tool message that names the first call of the round, whatever call it
\* answers.
ToolResultMessageFirstId(id, name, content) ==
    [role |-> "tool", tool_call_id |-> 1, name |-> name, content |-> content]

ToolResultMessage(id, name, content) ==
    [role |-> "tool", tool_call_id |-> id, name |-> name, content |-> content]

\* ------------------------------------------------- rich text helpers
\* toRichHtml and htmlToPlainText are uninterpreted: the HTML of a text and
\* the plain text of an HTML body are values tagged with their source.
toRichHtml(input) == [html_of |-> input]

htmlToPlainText(html) == [text_of |-> html]

\* ------------------------------------------------------ tool executors
\* An executor call ends by returning a result or by throwing; `requests`
\* are the requests it sent to the Content Backend on the way.
Returned(result, requests) ==
    [threw |-> FALSE, error |-> "", result |-> result, requests |-> requests]

Thrown(error, requests) ==
    [threw |-> TRUE, error |-> error, result |-> [undefined |-> TRUE],
     requests |-> requests]

isFindContentArgs(args) == "query" \in DOMAIN args

isCreateContentArgs(args) ==
    {"title", "description", "content_type"} \subseteq DOMAIN args

isEditContentArgs(args) == {"content_id", "changes"} \subseteq DOMAIN args

\* a || b on tokens
OrElse(a, b) == IF Truthy(a) THEN a ELSE b

\* String.prototype.toLowerCase on the type names used here.
toLowerCase(s) ==
    CASE s = "Idea" -> "idea"
      [] s = "ALL" -> "all"
      [] OTHER -> s

\* The key of the tool result cache: find_content|{query, type}.
CacheKey(args) ==
    <<"find_content", OrElse(Member(args, "query"), "''"),
      toLowerCase(OrElse(Member(args, "type"), "all"))>>

isNeedpediaPost(p) == "title" \in DOMAIN p \/ "post_type" \in DOMAIN p

RECURSIVE normalizePostArray(_)
normalizePostArray(content) ==
    IF Len(content) = 0 THEN <<>>
    ELSE (IF isNeedpediaPost(Head(content)) THEN <<Head(content)>> ELSE <<>>)
         \o normalizePostArray(Tail(content))

FindItem(p, postType) ==
    [title |-> OrElse(Member(p, "title"), "Untitled"),
     type |-> OrElse(Member(p, "post_type"), postType),
     link |-> OrElse(Member(p, "link"),
                     OrElse(Member(p, "url"), Member(p, "post_url")))]

\* The GET request of find_content.
SearchRequest(args, postType, token) ==
    [method |-> "GET", path |-> "/api/v1/posts", type |-> postType,
     query |-> Member(args, "query"), token |-> token]

\* A test that takes an entry for fresh in the millisecond of its expiry.
CacheFreshInclusive(entry, t) == entry.expiryMs >= t

\* cached.expiryMs > now, line 266
CacheFresh(entry, t) == entry.expiryMs > t

\* Lines 265-266: the cache holds an entry for the key that is fresh at t.
CacheHit(cache, key, t) == key \in DOMAIN cache /\ CacheFresh(cache[key], t)

\* toolResultCache.set(key, entry)
CacheSet(cache, key, entry) ==
    [k \in DOMAIN cache \cup {key} |-> IF k = key THEN entry ELSE cache[k]]

\* Lines 288-315: the result of a search, from the answer of the backend.
FindResult(resp, postType) ==
    LET source == normalizePostArray(resp.content)
    IN  [items |-> [k \in 1..Len(source) |-> FindItem(source[k], postType)]]

\* getFunctions(userToken).find_content; cache is toolResultCache, now is
\* Date.now().  The value carries the cache as the call leaves it.
find_content(args, resp, cache, now, token) ==
    IF ~isFindContentArgs(args)
    THEN [call |-> Thrown("Invalid arguments for content search", <<>>),
          cache |-> cache]
    ELSE
    LET postType == toLowerCase(OrElse(Member(args, "type"), "all"))
        cacheKey == CacheKey(args)
        req == SearchRequest(args, postType, token)
    IN  IF CacheHit(cache, cacheKey, now)
        THEN [call |-> Returned(cache[cacheKey].payload, <<>>), cache |-> cache]
        ELSE IF resp.outcome # "ok"
        THEN [call |-> Thrown("API request failed", <<req>>), cache |-> cache]
        ELSE
        LET result == FindResult(resp, postType)
        IN  [call |-> Returned(result, <<req>>),
             cache |-> CacheSet(cache, cacheKey,
                                [expiryMs |-> now + TOOL_CACHE_TTL_MS,
                                 payload |-> result])]

\* A gate that never opens.
ConfirmedNever(args) == FALSE

\* The confirmation gate of lines 335 and 396 is passed: args.confirm is
\* truthy.
Confirmed(args) == Truthy(Member(args, "confirm"))

\* The JSON value null in the place of an object.
NullValue == [null |-> "null"]

\* getFunctions(userToken).create_content
create_content(args, resp, token) ==
    IF ~isCreateContentArgs(args)
    THEN Thrown("Invalid arguments for content creation", <<>>)
    ELSE
    LET htmlBody == toRichHtml(OrElse(args.description, "''"))
        plainText == htmlToPlainText(htmlBody)
        previewPayload ==
            [title |-> args.title, content_type |-> args.content_type,
             description |-> args.description, html |-> htmlBody,
             plain_text |-> plainText, parent_id |-> Member(args, "parent_id")]
        parent == Member(args, "parent_id")
        postData ==
            [title |-> OrElse(args.title, "''"),
             post_type |-> OrElse(args.content_type, "''"),
             body |-> htmlBody,
             subject_id |-> IF args.content_type = "problem" /\ Truthy(parent)
                            THEN parent ELSE "undefined",
             problem_id |-> IF args.content_type = "idea" /\ Truthy(parent)
                            THEN parent ELSE "undefined"]
        req == [method |-> "POST", path |-> "/api/v1/posts",
                post |-> postData, token |-> token]
    IN  IF ~Confirmed(args)
        THEN Returned([requires_confirmation |-> TRUE,
                       preview |-> previewPayload,
                       instructions |-> "confirm create_content"], <<>>)
        ELSE IF resp.outcome # "ok"
        THEN Thrown("API request failed", <<req>>)
        ELSE Returned([post |-> resp.post], <<req>>)

\* getFunctions(userToken).edit_content
edit_content(args, resp, token) ==
    IF ~isEditContentArgs(args)
    THEN Thrown("Invalid arguments for content editing", <<>>)
    ELSE IF args.changes = NullValue
    THEN \* line 385 destructures null
         Thrown("TypeError", <<>>)
    ELSE
    LET title == Member(args.changes, "title")
        description == Member(args.changes, "description")
        hasHtml == Truthy(description)
        previewPayload ==
            [content_id |-> args.content_id, title |-> title,
             description |-> description,
             html |-> IF hasHtml THEN <<toRichHtml(description)>> ELSE <<>>,
             plain_text |-> IF hasHtml
                            THEN <<htmlToPlainText(toRichHtml(description))>>
                            ELSE <<>>]
        postData ==
            [title |-> IF Truthy(title) THEN title ELSE "undefined",
             content |-> IF hasHtml THEN <<toRichHtml(description)>> ELSE <<>>]
        req == [method |-> "PUT", path |-> "/posts/api_update",
                content_id |-> args.content_id, post |-> postData,
                token |-> token]
    IN  IF ~Confirmed(args)
        THEN Returned([requires_confirmation |-> TRUE,
                       preview |-> previewPayload,
                       instructions |-> "confirm edit_content"], <<>>)
        ELSE IF resp.outcome # "ok"
        THEN Thrown("API request failed", <<req>>)
        ELSE Returned([post |-> resp.post], <<req>>)

\* The tool registry, funcs[name].
ToolNames == {"find_content", "create_content", "edit_content"}

\* The write requests among the requests an executor sent.
Writes(requests) ==
    SelectSeq(requests, LAMBDA r : r.method \in {"POST", "PUT"})

IsPreview(call) ==
    ~call.threw /\ "requires_confirmation" \in DOMAIN call.result

\* ------------------------------------------------------ argument texts
\* The argument texts the model puts into its tool calls.
T_FIND == "{\"query\":\"q\"}"
T_FIND_SPACED == "{ \"query\": \"q\" }"
T_FIND_IDEA == "{\"query\":\"q\",\"type\":\"Idea\"}"
T_CREATE == "{\"title\":\"t\",\"description\":\"d\",\"content_type\":\"idea\"}"
T_CREATE_CONFIRM ==
    "{\"title\":\"t\",\"description\":\"d\",\"content_type\":\"idea\",\"confirm\":true}"
T_EDIT_CONFIRM ==
    "{\"content_id\":\"7\",\"changes\":{\"title\":\"t\"},\"confirm\":true}"
T_OBJECT == "{}"
T_NONE == ""
T_TRUNCATED == "{\"query\":"

\* JSON.parse: the value of a text, or a SyntaxError.
JSONparse(text) ==
    CASE text \in {T_FIND, T_FIND_SPACED} ->
            [ok |-> TRUE, value |-> [query |-> "q"]]
      [] text = T_FIND_IDEA ->
            [ok |-> TRUE, value |-> [query |-> "q", type |-> "Idea"]]
      [] text = T_CREATE ->
            [ok |-> TRUE,
             value |-> [title |-> "t", description |-> "d",
                        content_type |-> "idea"]]
      [] text = T_CREATE_CONFIRM ->
            [ok |-> TRUE,
             value |-> [title |-> "t", description |-> "d",
                        content_type |-> "idea", confirm |-> "true"]]
      [] text = T_EDIT_CONFIRM ->
            [ok |-> TRUE,
             value |-> [content_id |-> "7", changes |-> [title |-> "t"],
                        confirm |-> "true"]]
      [] text = T_OBJECT -> [ok |-> TRUE, value |-> [x \in {} |-> "undefined"]]
      [] OTHER -> [ok |-> FALSE]

\* JSON.stringify of a parsed argument object: the text without white space.
JSONstringify(value) ==
    CHOOSE t \in {T_FIND, T_FIND_IDEA, T_CREATE, T_CREATE_CONFIRM,
                  T_EDIT_CONFIRM, T_OBJECT} :
        JSONparse(t).value = value

\* JSON.stringify of a tool result, as the content of a tool message.
PREVIEW_PAYLOAD == Str("{requires_confirmation,preview,instructions}")

ResultPayload(result) ==
    CASE "requires_confirmation" \in DOMAIN result -> PREVIEW_PAYLOAD
      [] "post" \in DOMAIN result -> Str("{post}")
      [] "items" \in DOMAIN result ->
            IF Len(result.items) = 0 THEN Str("{items:[]}")
            ELSE Str("{items:[...]}")
      [] OTHER -> Str("{}")

ErrorPayload(message) == <<Text("{error}"), Text(message)>>

\* ----------------------------------------------------- context assembly
\* existingHistory.some(m => m.role === 'system')
HasSystem(history) == \E k \in 1..Len(history) : history[k].role = "system"

BaseHistory(existingHistory) ==
    IF HasSystem(existingHistory)
    THEN existingHistory
    ELSE <<Msg("system", SYSTEM_PROMPT)>> \o existingHistory

\* RequestMessages without the truncation of lines 582-586.
RequestMessagesUntrimmed(existingHistory, msgs) ==
    BaseHistory(existingHistory) \o msgs

\* requestMessages: the context of the first model call.
RequestMessages(existingHistory, msgs) ==
    LET joined == BaseHistory(existingHistory) \o msgs
        system == IF joined[1].role = "system" THEN <<joined[1]>> ELSE <<>>
        tail == SliceLast(joined, Max(1, MAX_CONTEXT_MESSAGES - Len(system)))
    IN  IF Len(joined) <= MAX_CONTEXT_MESSAGES THEN joined ELSE system \o tail

\* --------------------------------------------------- conversation store
\* An append that keeps the oldest messages.
StoreAppendKeepsFirst(history, msgs, maxMessages) ==
    LET updated == history \o msgs
    IN  IF maxMessages > 0 /\ maxMessages < Len(updated)
        THEN SubSeq(updated, 1, maxMessages) ELSE updated

\* An append that extends the history its caller read earlier.
AppendBaseStale(current, existing) == existing

\* The history that append extends: the one it reads itself from the store
\* (memory.ts:17), not the one the handler read when the request arrived.
AppendBase(current, existing) == current

\* InMemoryConversationStore.append
StoreAppend(history, msgs, maxMessages) ==
    LET updated == history \o msgs
    IN  IF maxMessages > 0 THEN SliceLast(updated, maxMessages) ELSE updated

\* ------------------------------------------------------- final content
\* content.trim() === ''
IsBlank(content) ==
    \A k \in 1..Len(content) :
        "text" \in DOMAIN content[k] /\ content[k].text \in {"", " "}

FALLBACK_TOOLS == Str("I've processed your request using the available tools.")
FALLBACK_PLAIN == Str("I've processed your request.")

\* An answer that is passed on as the model gave it.
WithoutFallback(m) == m

\* Lines 738-745: the fallback sentence for an empty answer.
WithFallback(m) ==
    IF Len(m.content) = 0 \/ IsBlank(m.content)
    THEN [m EXCEPT !.content = IF Len(ToolCallsOf(m)) > 0
                                THEN FALLBACK_TOOLS ELSE FALLBACK_PLAIN]
    ELSE m

\* The links of a find_content result that replacePlaceholderLinksWithToolUrls
\* keeps: strings that are not blank.
ResultLinks(name, result) ==
    IF name = "find_content" /\ "items" \in DOMAIN result
    THEN LET links == [k \in 1..Len(result.items) |-> result.items[k].link]
         IN  SelectSeq(links, LAMBDA l : l \notin {"undefined", "''", " "})
    ELSE <<>>

IsPlaceholder(tok) == "url" \in DOMAIN tok /\ tok.url = "#"

\* The number of placeholder links among the first k tokens.
RECURSIVE PlaceholdersUpTo(_, _)
PlaceholdersUpTo(text, k) ==
    IF k = 0 THEN 0
    ELSE PlaceholdersUpTo(text, k - 1) + (IF IsPlaceholder(text[k]) THEN 1 ELSE 0)

\* A substitution that fills every placeholder with the first link.
replaceWithFirstLink(text, links) ==
    [k \in 1..Len(text) |->
        IF IsPlaceholder(text[k]) /\ Len(links) > 0
        THEN Link(text[k].label, links[1])
        ELSE text[k]]

replacePlaceholderLinksWithToolUrls(text, links) ==
    [k \in 1..Len(text) |->
        IF IsPlaceholder(text[k]) /\ PlaceholdersUpTo(text, k) <= Len(links)
        THEN Link(text[k].label, links[PlaceholdersUpTo(text, k)])
        ELSE text[k]]

\* ================================================================ state
VARIABLES
    pc,                 \* position of the handler
    userToken,          \* the request's userToken, "undefined" when missing
    apiKey,             \* process.env.OPENROUTER_API_KEY is set
    conversationId,     \* id of the request
    messages,           \* the request's messages
    store,              \* conversationStore: id -> history
    toolResultCache,    \* cache key -> [expiryMs, payload]
    now,                \* Date.now()
    requestMessages,    \* the bounded context
    llmRequest,         \* the request last sent to the Language-Model Service
    assistantMessage,
    safetyCounter,
    toolCallIndex,      \* i of the for loop, from 1
    toolResults,
    roundMemo,          \* round key -> [name, content]
    executedLinks,      \* the links of executedToolResults, in execution order
    response,           \* the handler's HTTP response
    lastExec,           \* the executor call of the latest step, if any
    invoked,            \* round keys whose executor was invoked this round
    history,            \* what the request has done so far
    toolInput,          \* a tool call made outside the loop: [name, args]
    finds,              \* the find_content calls of the cache runs
    lastAppend,         \* the latest append of the store runs
    chats,              \* chat requests on one conversation that overlap
    loader              \* a request to the history endpoint

vars == <<pc, userToken, apiKey, conversationId, messages, store,
          toolResultCache, now, requestMessages, llmRequest, assistantMessage,
          safetyCounter, toolCallIndex, toolResults, roundMemo, executedLinks,
          response, lastExec, invoked, history, toolInput, finds, lastAppend,
          chats, loader>>

inputVars == <<userToken, apiKey, conversationId, messages, now, toolInput,
               finds, lastAppend, chats, loader>>
loopVars == <<safetyCounter, toolCallIndex, toolResults, roundMemo, invoked>>

ConvIds == {"c1", "c2"}

NoMessage == Msg("none", <<>>)
NoRequest == [messages |-> <<>>, tool_choice |-> "none", call |-> "none"]
NoResponse == [status |-> 0]
NoExec == [name |-> "none"]
NoAppend == [id |-> "none"]
NoLoader == [pc |-> "none", history |-> <<>>]
EmptyMap == [k \in {} |-> NoMessage]

\* What the request has done so far: the number of model calls that
\* succeeded, the tools that returned a preview in an earlier round and the
\* failure of a model call, if one failed.
NoFailure == [kind |-> "none"]

NoHistory == [modelCalls |-> 0, previewed |-> {}, failure |-> NoFailure]

\* --------------------------------------------------------- environment
\* The tool calls the model chooses from.
Menu ==
    { [name |-> "find_content", arguments |-> T_FIND],
      [name |-> "find_content", arguments |-> T_FIND_SPACED],
      [name |-> "find_content", arguments |-> T_TRUNCATED],
      [name |-> "create_content", arguments |-> T_CREATE],
      [name |-> "create_content", arguments |-> T_CREATE_CONFIRM],
      [name |-> "edit_content", arguments |-> T_EDIT_CONFIRM],
      [name |-> "delete_content", arguments |-> T_NONE] }

\* The lists of at most n tool calls over a menu; the id of a call is its
\* position.
ToolCallLists(menu, n) ==
    UNION { { [k \in 1..j |-> [id |-> k, name |-> f[k].name,
                               arguments |-> f[k].arguments]] :
              f \in [1..j -> menu] } : j \in 0..n }

Contents == { <<>>, Str(" "), Str("answer"), <<Text("see"), Link("a", "#")>> }

\* The assistant messages the Language-Model Service answers with: with at
\* most one tool call, with up to MaxCalls tool calls, with none.
SingleCallMessages ==
    { AssistantMsg(c, calls) : c \in Contents, calls \in ToolCallLists(Menu, 1) }

ManyCallMessages ==
    { AssistantMsg(c, calls) :
        c \in {<<>>, Str("answer")}, calls \in ToolCallLists(Menu, MaxCalls) }

TextMessages == { AssistantMsg(c, <<>>) : c \in Contents }

\* The answers of the termination runs: up to MaxCalls calls of a tool that
\* succeeds or fails, or whose argument text is cut short.
LiveMenu ==
    { [name |-> "edit_content", arguments |-> T_EDIT_CONFIRM],
      [name |-> "find_content", arguments |-> T_TRUNCATED] }

LiveMessages ==
    { AssistantMsg(c, calls) :
        c \in {<<>>, Str("answer")}, calls \in ToolCallLists(LiveMenu, MaxCalls) }

\* The answers of the link runs: up to MaxCalls searches of two kinds in
\* the first answer and at most one search in a later answer, with a text
\* of four placeholder links.
LinkMenu ==
    { [name |-> "find_content", arguments |-> T_FIND],
      [name |-> "find_content", arguments |-> T_FIND_IDEA] }

LinkContents ==
    { <<>>,
      <<Link("a", "#"), Text("and"), Link("b", "#"), Link("c", "#"),
        Link("d", "#")>> }

LinkMessages ==
    { AssistantMsg(c, calls) :
        c \in LinkContents, calls \in ToolCallLists(LinkMenu, MaxCalls) }

LinkFollowupMessages ==
    { AssistantMsg(c, calls) :
        c \in LinkContents, calls \in ToolCallLists(LinkMenu, 1) }

\* A failed model call as the catch block sees it.  kind "http": an axios
\* error with the status and body of the service, whose error member is a
\* string, an object with a message, or absent; kind "network": an axios
\* error without a response; kind "invalid": the Error of line 621, a reply
\* without choices[0].message.  `message` is error.message.
LLMFailures ==
    { [kind |-> "http", status |-> 503, errorIs |-> "string",
       upstream |-> "upstream unavailable",
       message |-> "Request failed with status code 503"],
      [kind |-> "http", status |-> 429, errorIs |-> "object",
       upstream |-> "rate limited",
       message |-> "Request failed with status code 429"],
      [kind |-> "http", status |-> 502, errorIs |-> "absent",
       upstream |-> "",
       message |-> "Request failed with status code 502"],
      [kind |-> "network", status |-> 0, errorIs |-> "absent",
       upstream |-> "", message |-> "socket hang up"],
      [kind |-> "invalid", status |-> 0, errorIs |-> "absent",
       upstream |-> "", message |-> "Invalid response from OpenRouter API"] }

\* The answers of the Content Backend to a search: an error status, one
\* post, or a list with posts that carry their link as link, url or
\* post_url, a post without a link, an entry that is not a post and a post
\* with a blank link.
SearchResponses ==
    { [outcome |-> "error"],
      [outcome |-> "ok", content |-> <<[title |-> "T", link |-> "L1"]>>],
      [outcome |-> "ok",
       content |-> << [title |-> "T2", url |-> "L2"],
                      [title |-> "T3"],
                      [post_type |-> "idea", post_url |-> "L3"],
                      [link |-> "L4"],
                      [title |-> "T5", link |-> " "] >>] }

WriteResponses ==
    { [outcome |-> "error"], [outcome |-> "ok", post |-> [link |-> "P1"]] }

\* ================================================================ actions
\* The catch block, lines 784-795: an error response.
ErrorResponse(status, error) == [status |-> status, error |-> error]

\* A request to the Language-Model Service.
ChatCompletion(msgs, toolChoice, call) ==
    [messages |-> msgs, tool_choice |-> toolChoice, call |-> call]

\* A catch block that answers every failure with status 500.
CatchStatusAlways500(f) == 500

\* The status of the catch block, line 793.
CatchStatus(f) == IF f.kind = "http" THEN f.status ELSE 500

\* The error text of the catch block, lines 789-791.
CatchError(f) ==
    IF f.kind = "http" /\ f.errorIs = "string" THEN f.upstream
    ELSE IF f.kind = "http" /\ f.errorIs = "object" /\ f.upstream # ""
    THEN f.upstream
    ELSE f.message

\* A handler that does not look at the user token.
AuthenticatedAlways(token) == TRUE

\* The test of line 565 passes.
Authenticated(token) == Truthy(token)

\* Lines 551-610: from the arrival of the request to the first model call.
ReceiveRequest ==
    /\ pc = "start"
    /\ IF ~Authenticated(userToken)
       THEN /\ response' = ErrorResponse(401, "Unauthenticated: missing user token")
            /\ pc' = "done"
            /\ UNCHANGED <<requestMessages, llmRequest>>
       ELSE /\ requestMessages' = RequestMessages(store[conversationId], messages)
            /\ IF ~apiKey
               THEN /\ response' = ErrorResponse(500, "OpenRouter API key is not configured")
                    /\ pc' = "done"
                    /\ UNCHANGED llmRequest
               ELSE /\ llmRequest' = ChatCompletion(requestMessages', "auto", "first")
                    /\ pc' = "first"
                    /\ UNCHANGED response
    /\ UNCHANGED <<inputVars, store, toolResultCache, assistantMessage,
                   loopVars, executedLinks, lastExec, history>>

\* The most model calls one request can make: the first one, one follow-up
\* per round and the forced-text call.
MaxModelCalls == MaxRounds + 2

\* The count of model calls in history, which stops at MaxModelCalls.
CountCall(n) == IF n < MaxModelCalls THEN n + 1 ELSE n

\* A loop that forgets to count its rounds.
NextCounterStuck(c) == c

\* safetyCounter++ (line 631)
NextCounter(c) == c + 1

\* The while test with the limit off by one.
LoopContinuesOffByOne(m, counter) ==
    Len(ToolCallsOf(m)) > 0 /\ counter <= MaxRounds

\* The test of the while loop, line 630.
LoopContinues(m, counter) == Len(ToolCallsOf(m)) > 0 /\ counter < MaxRounds

\* The while test on a new assistant message and, when it holds, lines
\* 631-635: the start of a round.
EnterLoop(m) ==
    /\ assistantMessage' = m
    /\ history' = [modelCalls |-> CountCall(history.modelCalls),
                   failure |-> history.failure,
                   previewed |-> history.previewed \cup
                       { toolResults[k].name : k \in
                           { j \in 1..Len(toolResults) :
                               toolResults[j].content = PREVIEW_PAYLOAD } }]
    /\ IF LoopContinues(m, safetyCounter)
       THEN /\ pc' = "tools"
            /\ safetyCounter' = NextCounter(safetyCounter)
            /\ toolCallIndex' = 1
            /\ toolResults' = <<>>
            /\ roundMemo' = EmptyMap
            /\ invoked' = <<>>
       ELSE /\ pc' = "final"
            /\ UNCHANGED loopVars

\* Lines 612-629: the first model call answers with a message of M.
FirstResponseOf(M) ==
    /\ pc = "first"
    /\ \E m \in M : EnterLoop(m)
    /\ UNCHANGED <<inputVars, store, toolResultCache, requestMessages,
                   llmRequest, executedLinks, response, lastExec>>

\* A catch block that stores the caller's messages before it answers.
ModelCallFailsStoring ==
    /\ pc \in {"first", "followup", "forced"}
    /\ \E f \in LLMFailures :
          /\ response' = ErrorResponse(CatchStatus(f), CatchError(f))
          /\ history' = [history EXCEPT !.failure = f]
    /\ pc' = "done"
    /\ store' = [store EXCEPT ![conversationId] =
                    StoreAppend(@, messages, MAX_STORED_MESSAGES)]
    /\ UNCHANGED <<inputVars, toolResultCache, requestMessages,
                   llmRequest, assistantMessage, loopVars, executedLinks,
                   lastExec>>

\* A model call fails: the catch block answers with the upstream status.
ModelCallFails ==
    /\ pc \in {"first", "followup", "forced"}
    /\ \E f \in LLMFailures :
          /\ response' = ErrorResponse(CatchStatus(f), CatchError(f))
          /\ history' = [history EXCEPT !.failure = f]
    /\ pc' = "done"
    /\ UNCHANGED <<inputVars, store, toolResultCache, requestMessages,
                   llmRequest, assistantMessage, loopVars, executedLinks,
                   lastExec>>

\* funcs[name](args) for a name of the registry, with the answer resp of the
\* Content Backend.
Execute(name, args, resp, cache, t, token) ==
    CASE name = "find_content" -> find_content(args, resp, cache, t, token)
      [] name = "create_content" ->
            [call |-> create_content(args, resp, token), cache |-> cache]
      [] name = "edit_content" ->
            [call |-> edit_content(args, resp, token), cache |-> cache]

Responses(name) ==
    IF name = "find_content" THEN SearchResponses ELSE WriteResponses

\* roundMemo.set(roundKey, entry)
MemoSet(memo, key, entry) ==
    [k \in DOMAIN memo \cup {key} |-> IF k = key THEN entry ELSE memo[k]]

\* updatedMessages, line 689
UpdatedMessages(context, assistant, results) ==
    context \o <<assistant>> \o results

\* The end of one pass of the for loop: the next tool call or, after the
\* last one, the follow-up model call of lines 689-700.
Advance(results) ==
    /\ toolResults' = results
    /\ toolCallIndex' = toolCallIndex + 1
    /\ IF toolCallIndex < Len(ToolCallsOf(assistantMessage))
       THEN /\ pc' = "tools"
            /\ UNCHANGED llmRequest
       ELSE /\ pc' = "followup"
            /\ llmRequest' = ChatCompletion(
                   UpdatedMessages(requestMessages, assistantMessage, results),
                   "auto", "followup")

\* argsString || '{}'
ArgumentText(argsString) == IF argsString = "" THEN "{}" ELSE argsString

\* Lines 637-687: one pass of the for loop.
ToolStep ==
    /\ pc = "tools"
    /\ LET toolCall == ToolCallsOf(assistantMessage)[toolCallIndex]
           name == toolCall.name
           argsString == toolCall.arguments
           parsed == JSONparse(ArgumentText(argsString))
       IN  IF ~parsed.ok
           THEN \* JSON.parse throws outside the try of line 645
                /\ response' = ErrorResponse(500, "SyntaxError")
                /\ pc' = "done"
                /\ lastExec' = NoExec
                /\ UNCHANGED <<toolResultCache, llmRequest, toolCallIndex,
                               toolResults, roundMemo, invoked, executedLinks,
                               history>>
           ELSE
           LET args == parsed.value
               roundKey == <<name, JSONstringify(args)>>
           IN  IF roundKey \in DOMAIN roundMemo
               THEN /\ Advance(Append(toolResults,
                          ToolResultMessage(toolCall.id, roundMemo[roundKey].name,
                                            roundMemo[roundKey].content)))
                    /\ lastExec' = NoExec
                    /\ UNCHANGED <<toolResultCache, roundMemo, executedLinks,
                                   invoked, history, response>>
               ELSE IF name \notin ToolNames
               THEN /\ Advance(Append(toolResults,
                          ToolResultMessage(toolCall.id, name,
                                            ErrorPayload("Unsupported tool"))))
                    /\ lastExec' = NoExec
                    /\ UNCHANGED <<toolResultCache, roundMemo, executedLinks,
                                   invoked, history, response>>
               ELSE \E resp \in Responses(name) :
                    LET ex == Execute(name, args, resp, toolResultCache, now,
                                      userToken)
                        call == ex.call
                    IN  /\ toolResultCache' = ex.cache
                        /\ lastExec' = [name |-> name, args |-> args, call |-> call]
                        /\ invoked' = Append(invoked, roundKey)
                        /\ response' = response
                        /\ IF call.threw
                           THEN /\ Advance(Append(toolResults,
                                      ToolResultMessage(toolCall.id, name,
                                                        ErrorPayload(call.error))))
                                /\ UNCHANGED <<roundMemo, executedLinks, history>>
                           ELSE /\ executedLinks' =
                                      executedLinks \o ResultLinks(name, call.result)
                                /\ roundMemo' = MemoSet(roundMemo, roundKey,
                                      [name |-> name,
                                       content |-> ResultPayload(call.result)])
                                /\ Advance(Append(toolResults,
                                      ToolResultMessage(toolCall.id, name,
                                                        ResultPayload(call.result))))
                                /\ UNCHANGED history
    /\ UNCHANGED <<inputVars, store, requestMessages, assistantMessage,
                   safetyCounter>>

\* Lines 701-734: the follow-up call answers.  An answer without content
\* and without tool calls is followed by the call with tool_choice 'none'.
FollowupResponseOf(M) ==
    /\ pc = "followup"
    /\ \E m \in M :
        IF Len(m.content) = 0 /\ Len(ToolCallsOf(m)) = 0
        THEN /\ assistantMessage' = m
             /\ llmRequest' = ChatCompletion(llmRequest.messages, "none", "forced")
             /\ pc' = "forced"
             /\ history' = [history EXCEPT !.modelCalls = CountCall(@)]
             /\ UNCHANGED loopVars
        ELSE /\ EnterLoop(m)
             /\ UNCHANGED llmRequest
    /\ lastExec' = NoExec
    /\ UNCHANGED <<inputVars, store, toolResultCache, requestMessages,
                   executedLinks, response>>

\* A forced-text answer that is treated like any other answer: the loop
\* goes on when it asks for tools.
ForcedResponseLoops(M) ==
    /\ pc = "forced"
    /\ \E m \in M : EnterLoop(m)
    /\ UNCHANGED <<inputVars, store, toolResultCache, requestMessages,
                   llmRequest, executedLinks, response, lastExec>>

\* Lines 724-733: the forced-text call answers and the loop is left.
ForcedResponseOf(M) ==
    /\ pc = "forced"
    /\ \E m \in M : assistantMessage' = m
    /\ pc' = "final"
    /\ history' = [history EXCEPT !.modelCalls = CountCall(@)]
    /\ UNCHANGED <<inputVars, store, toolResultCache, requestMessages,
                   llmRequest, loopVars, executedLinks, response, lastExec>>

\* Lines 737-750: the message that is answered and stored.
FinalMessage(m, links) ==
    LET filled == WithFallback(m)
    IN  [filled EXCEPT !.content =
             replacePlaceholderLinksWithToolUrls(filled.content, links)]

\* A batch that also holds the tool messages of the last round.
ToAppendWithToolResults(msgs, final) == msgs \o toolResults \o <<final>>

\* toAppend, lines 753-756: the caller's messages and the final assistant
\* message.
ToAppend(msgs, final) == msgs \o <<final>>

\* Lines 737-783: fallback text, link substitution, persistence, answer.
Finish ==
    /\ pc = "final"
    /\ LET final == FinalMessage(assistantMessage, executedLinks)
       IN  /\ assistantMessage' = final
           /\ store' = [store EXCEPT ![conversationId] =
                  StoreAppend(@, ToAppend(messages, final),
                              MAX_STORED_MESSAGES)]
           /\ response' = [status |-> 200, message |-> final]
    /\ pc' = "done"
    /\ UNCHANGED <<inputVars, toolResultCache, requestMessages, llmRequest,
                   loopVars, executedLinks, lastExec, history>>

\* ======================================================== specification
\* A history the store can hold: the messages of earlier requests, each
\* request ending with its assistant message.
StoredTurns ==
    << Msg("user", Str("u1")), Msg("assistant", Str("a1")),
       Msg("user", Str("u2")), Msg("assistant", Str("a2")) >>

Locals ==
    /\ toolResultCache = [k \in {} |-> 0]
    /\ now = 0
    /\ requestMessages = <<>>
    /\ llmRequest = NoRequest
    /\ assistantMessage = NoMessage
    /\ safetyCounter = 0
    /\ toolCallIndex = 0
    /\ toolResults = <<>>
    /\ roundMemo = EmptyMap
    /\ executedLinks = <<>>
    /\ response = NoResponse
    /\ lastExec = NoExec
    /\ invoked = <<>>
    /\ history = NoHistory

\* One chat request: on the conversation c1, which has a stored history, or
\* on the new conversation c2.
Init ==
    /\ Locals
    /\ pc = "start"
    /\ userToken \in {"undefined", "''", "tokA"}
    /\ apiKey \in BOOLEAN
    /\ conversationId \in ConvIds
    /\ toolInput = NoExec
    /\ finds = <<>>
    /\ lastAppend = NoAppend
    /\ chats = <<>>
    /\ loader = NoLoader
    /\ messages = <<Msg("user", Str("hello"))>>
    /\ store = [c \in ConvIds |-> IF c = "c1" THEN StoredTurns ELSE <<>>]

\* The model asks for at most one tool call in each of its answers.
FirstResponse == FirstResponseOf(SingleCallMessages)
FollowupResponse == FollowupResponseOf(SingleCallMessages)
ForcedResponse == ForcedResponseOf(SingleCallMessages)

Next ==
    \/ ReceiveRequest
    \/ FirstResponse
    \/ ModelCallFails
    \/ ToolStep
    \/ FollowupResponse
    \/ ForcedResponse
    \/ Finish

Spec == Init /\ [][Next]_vars

\* The model asks for up to MaxCalls tool calls in its first answer and for
\* none afterwards: one round of the loop.
RoundFirstResponse == FirstResponseOf(ManyCallMessages)
RoundFollowupResponse == FollowupResponseOf(TextMessages)
RoundForcedResponse == ForcedResponseOf(TextMessages)

RoundNext ==
    \/ ReceiveRequest
    \/ RoundFirstResponse
    \/ ModelCallFails
    \/ ToolStep
    \/ RoundFollowupResponse
    \/ RoundForcedResponse
    \/ Finish

RoundSpec == Init /\ [][RoundNext]_vars

\* The termination runs.  Every step of the handler that can be taken is
\* taken eventually: each await of the handler is answered or fails.
LiveFirstResponse == FirstResponseOf(LiveMessages)
LiveFollowupResponse == FollowupResponseOf(LiveMessages)
LiveForcedResponse == ForcedResponseOf(LiveMessages)

LiveNext ==
    \/ ReceiveRequest
    \/ LiveFirstResponse
    \/ ModelCallFails
    \/ ToolStep
    \/ LiveFollowupResponse
    \/ LiveForcedResponse
    \/ Finish

LiveSpec == Init /\ [][LiveNext]_vars /\ WF_vars(LiveNext)

\* The link runs: searches in every round and answers with placeholders.
LinkFirstResponse == FirstResponseOf(LinkMessages)
LinkFollowupResponse == FollowupResponseOf(LinkFollowupMessages)
LinkForcedResponse == ForcedResponseOf(LinkFollowupMessages)

LinkNext ==
    \/ ReceiveRequest
    \/ LinkFirstResponse
    \/ ModelCallFails
    \/ ToolStep
    \/ LinkFollowupResponse
    \/ LinkForcedResponse
    \/ Finish

LinkSpec == Init /\ [][LinkNext]_vars

\* ------------------------------------------------- context assembly runs
\* The messages of the context runs: user and assistant turns and a system
\* message a caller supplied.
CallerMessages == { Msg("user", Str("u1")), Msg("system", Str("rules")) }

StoredMessages == CallerMessages \cup { Msg("assistant", Str("a1")) }

SeqsUpTo(S, n) == UNION { [1..k -> S] : k \in 0..n }

\* The histories of at most MAX_STORED_MESSAGES messages that the handler
\* stores: empty, or the messages of callers ending with an assistant
\* message.
StoredHistories ==
    { <<>> } \cup
    { h \o <<Msg("assistant", Str("a2"))>> :
        h \in SeqsUpTo(StoredMessages, MAX_STORED_MESSAGES - 1) }

CtxInit ==
    /\ Locals
    /\ pc = "start"
    /\ userToken = "tokA"
    /\ apiKey = TRUE
    /\ conversationId = "c1"
    /\ toolInput = NoExec
    /\ finds = <<>>
    /\ lastAppend = NoAppend
    /\ chats = <<>>
    /\ loader = NoLoader
    /\ messages \in SeqsUpTo(CallerMessages, MaxMsgs)
    /\ \E h \in StoredHistories : store = [c \in ConvIds |-> IF c = "c1" THEN h ELSE <<>>]

CtxNext == ReceiveRequest

CtxSpec == CtxInit /\ [][CtxNext]_vars

\* -------------------------------------------------------- executor runs
\* One member of an argument object, "undefined" standing for its absence.
Prune(full) ==
    [f \in { g \in DOMAIN full : full[g] # "undefined" } |-> full[f]]

\* The values of confirm: absent, the JSON literals, the strings "false"
\* and "yes".
Confirms == {"undefined", "true", "false", "null", "0", "1", "'false'", "yes"}

CreateArgs ==
    { Prune([title |-> t, description |-> d, content_type |-> ct,
             parent_id |-> pid, confirm |-> cf]) :
        t \in {"undefined", "t", "''"}, d \in {"undefined", "d"},
        ct \in {"undefined", "idea", "problem"}, pid \in {"undefined", "9"},
        cf \in Confirms }

Changes ==
    { [title |-> "t"], [description |-> "d"],
      [title |-> "t", description |-> "d"], [description |-> "''"],
      [x \in {} |-> "undefined"], NullValue }

EditArgs ==
    { Prune([content_id |-> id, confirm |-> cf]) :
        id \in {"undefined", "7"}, cf \in Confirms }
    \cup
    { [content_id |-> "7", changes |-> ch] : ch \in Changes }
    \cup
    { [content_id |-> "7", changes |-> ch, confirm |-> cf] :
        ch \in Changes, cf \in Confirms \ {"undefined"} }

FindArgs ==
    { Prune([query |-> q, type |-> ty]) :
        q \in {"undefined", "q", "''"}, ty \in {"undefined", "Idea", "idea"} }

ToolInit ==
    /\ Locals
    /\ pc = "tool"
    /\ userToken = "tokA"
    /\ apiKey = TRUE
    /\ conversationId = "c1"
    /\ messages = <<>>
    /\ store = [c \in ConvIds |-> <<>>]
    /\ finds = <<>>
    /\ lastAppend = NoAppend
    /\ chats = <<>>
    /\ loader = NoLoader
    /\ \E name \in ToolNames, args \in CreateArgs \cup EditArgs \cup FindArgs :
          toolInput = [name |-> name, args |-> args]

\* funcs[name](args), called once.
CallTool ==
    /\ pc = "tool"
    /\ \E resp \in Responses(toolInput.name) :
        LET ex == Execute(toolInput.name, toolInput.args, resp,
                          toolResultCache, now, userToken)
        IN  /\ toolResultCache' = ex.cache
            /\ lastExec' = [name |-> toolInput.name, args |-> toolInput.args,
                            call |-> ex.call]
    /\ pc' = "called"
    /\ UNCHANGED <<inputVars, store, requestMessages, llmRequest,
                   assistantMessage, loopVars, executedLinks, response, history>>

ToolNext == CallTool

ToolSpec == ToolInit /\ [][ToolNext]_vars

\* ----------------------------------------------------------- cache runs
\* find_content calls of requests that are handled side by side.  A call
\* runs from its start to the await of line 274 in one step and from the
\* answer of the backend to its end in another; the clock moves in between.
\* Of a call the runs keep: its position, its arguments, the value of `now`
\* (line 264), whether it returned the cached payload, the expiry of the
\* entry it saw, the requests it sent, and the expiry of the entry it
\* stored with the time at which it stored it.
NoEntry == [present |-> FALSE, expiryMs |-> 0]

NoStore == [present |-> FALSE, expiryMs |-> 0, at |-> 0]

IdleFind(args, token) ==
    [pc |-> "idle", args |-> args, now |-> 0, hit |-> FALSE, seen |-> NoEntry,
     requests |-> <<>>, stored |-> NoStore, token |-> token, from |-> "none"]

\* The userToken of the request a call belongs to (getFunctions(userToken),
\* line 627): the first call is of one user, the others of another.
FindToken(i) == IF i = 1 THEN "tokA" ELSE "tokB"

\* The answers of the backend in the cache runs: an error, or one post.
CacheResponses ==
    { r \in SearchResponses : r.outcome = "ok" => Len(r.content) = 1 }

CacheFindArgs ==
    { [query |-> "q"], [query |-> "q", type |-> "Idea"],
      [query |-> "q", type |-> "idea"], [type |-> "idea"] }

handlerVars ==
    <<pc, userToken, apiKey, conversationId, messages, store, requestMessages,
      llmRequest, assistantMessage, loopVars, executedLinks, response,
      lastExec, history, toolInput, chats, loader>>

CacheInit ==
    /\ Locals
    /\ pc = "cache"
    /\ userToken = "tokA"
    /\ apiKey = TRUE
    /\ conversationId = "c1"
    /\ messages = <<>>
    /\ store = [c \in ConvIds |-> <<>>]
    /\ toolInput = NoExec
    /\ \E as \in [1..MaxFinds -> CacheFindArgs] :
          finds = [i \in 1..MaxFinds |-> IdleFind(as[i], FindToken(i))]
    /\ lastAppend = NoAppend
    /\ chats = <<>>
    /\ loader = NoLoader

\* Date.now() moves on.
Tick ==
    /\ now < MaxTicks * TickMs
    /\ now' = now + TickMs
    /\ UNCHANGED <<handlerVars, toolResultCache, finds, lastAppend>>

\* Lines 257-281: the argument check, the look into the cache and, on a
\* miss, the request to the backend.
FindStart(i) ==
    /\ finds[i].pc = "idle"
    /\ LET args == finds[i].args
           postType == toLowerCase(OrElse(Member(args, "type"), "all"))
           key == CacheKey(args)
           seen == IF key \in DOMAIN toolResultCache
                   THEN [present |-> TRUE,
                         expiryMs |-> toolResultCache[key].expiryMs]
                   ELSE NoEntry
       IN  finds' = [finds EXCEPT ![i] =
               IF ~isFindContentArgs(args)
               THEN [@ EXCEPT !.pc = "threw"]
               ELSE IF CacheHit(toolResultCache, key, now)
               THEN [@ EXCEPT !.pc = "returned", !.now = now, !.seen = seen,
                              !.hit = TRUE,
                              !.from = toolResultCache[key].token]
               ELSE [@ EXCEPT !.pc = "awaiting", !.now = now, !.seen = seen,
                              !.requests =
                                  <<SearchRequest(args, postType,
                                                  finds[i].token)>>]]
    /\ UNCHANGED <<handlerVars, toolResultCache, now, lastAppend>>

\* Lines 283-317: the backend answers; the result is stored and returned.
\* With the entry the runs keep the token of the search it came from, and
\* with the call the token of the search its result came from.
FindFinish(i) ==
    /\ finds[i].pc = "awaiting"
    /\ LET args == finds[i].args
           postType == toLowerCase(OrElse(Member(args, "type"), "all"))
           key == CacheKey(args)
       IN  \E resp \in CacheResponses :
             IF resp.outcome # "ok"
             THEN /\ finds' = [finds EXCEPT ![i].pc = "threw"]
                  /\ UNCHANGED toolResultCache
             ELSE /\ toolResultCache' =
                        CacheSet(toolResultCache, key,
                                 [expiryMs |-> finds[i].now + TOOL_CACHE_TTL_MS,
                                  payload |-> FindResult(resp, postType),
                                  token |-> finds[i].requests[1].token])
                  /\ finds' = [finds EXCEPT
                        ![i].pc = "returned",
                        ![i].from = finds[i].requests[1].token,
                        ![i].stored =
                            [present |-> TRUE,
                             expiryMs |-> toolResultCache'[key].expiryMs,
                             at |-> now]]
    /\ UNCHANGED <<handlerVars, now, lastAppend>>

CacheNext ==
    \/ Tick
    \/ \E i \in 1..MaxFinds : FindStart(i)
    \/ \E i \in 1..MaxFinds : FindFinish(i)

CacheSpec == CacheInit /\ [][CacheNext]_vars

\* ----------------------------------------------------------- store runs
\* Calls of conversationStore.append, one after the other, with a limit of
\* one message or of MAX_STORED_MESSAGES: any messages on the conversation
\* c1, one turn at a time on the conversation c2.  lastAppend keeps the
\* latest call with the store as the call found it.
AppendMessages == { Msg("user", Str("u1")), Msg("assistant", Str("a1")) }

AppendedTo(id) ==
    IF id = "c1" THEN SeqsUpTo(AppendMessages, MaxMsgs)
    ELSE { <<Msg("user", Str("u1")), Msg("assistant", Str("a1"))>> }

AppendLimits == {1, MAX_STORED_MESSAGES}

StoreInit ==
    /\ Locals
    /\ pc = "store"
    /\ userToken = "tokA"
    /\ apiKey = TRUE
    /\ conversationId = "c1"
    /\ messages = <<>>
    /\ store = [c \in ConvIds |-> <<>>]
    /\ toolInput = NoExec
    /\ finds = <<>>
    /\ lastAppend = NoAppend
    /\ chats = <<>>
    /\ loader = NoLoader

\* conversationStore.append(id, msgs, maxMessages)
AppendCall ==
    /\ pc = "store"
    /\ \E id \in ConvIds, maxMessages \in AppendLimits :
        \E msgs \in AppendedTo(id) :
          /\ store' = [store EXCEPT ![id] = StoreAppend(@, msgs, maxMessages)]
          /\ lastAppend' = [id |-> id, messages |-> msgs,
                            maxMessages |-> maxMessages, before |-> store]
    /\ UNCHANGED <<pc, userToken, apiKey, conversationId, messages,
                   toolResultCache, now, requestMessages, llmRequest,
                   assistantMessage, loopVars, executedLinks, response,
                   lastExec, history, toolInput, finds, chats, loader>>

StoreNext == AppendCall

StoreSpec == StoreInit /\ [][StoreNext]_vars

\* ---------------------------------------------------------- shared runs
\* Requests on the conversation c1 that are handled side by side.  Of a chat
\* request the runs keep what touches the store: the history it reads when
\* it arrives (line 572), its messages and its final assistant message,
\* which it appends when it is done (line 757); the model and tool calls
\* in between are awaits during which other requests run.  `order` counts
\* the appends.  A request to the history endpoint reads the store, awaits
\* the backend, then the disk, and sets what it loaded.
ChatIds == {1, 2}

ChatUser(i) == Msg("user", Str(IF i = 1 THEN "u1" ELSE "u2"))

ChatReply(i) == Msg("assistant", Str(IF i = 1 THEN "a1" ELSE "a2"))

ChatRequests(i) ==
    { [pc |-> "start", messages |-> msgs, reply |-> ChatReply(i),
       existing |-> <<>>, order |-> 0] :
      msgs \in { <<ChatUser(i)>>, <<ChatUser(i), Msg("user", Str("more"))>> } }

\* The histories of c1 at the start, and the ones the backend or the disk
\* hold (none, or the turns of an earlier day).
EarlierTurns == << Msg("user", Str("u0")), Msg("assistant", Str("a0")) >>

LoadedHistories == { <<>>, EarlierTurns }

SharedFrame ==
    UNCHANGED <<pc, userToken, apiKey, conversationId, messages,
                toolResultCache, now, requestMessages, llmRequest,
                assistantMessage, loopVars, executedLinks, response, lastExec,
                history, toolInput, finds, lastAppend>>

ChatsInit ==
    /\ Locals
    /\ pc = "shared"
    /\ userToken = "tokA"
    /\ apiKey = TRUE
    /\ conversationId = "c1"
    /\ messages = <<>>
    /\ toolInput = NoExec
    /\ finds = <<>>
    /\ lastAppend = NoAppend
    /\ \E h \in LoadedHistories :
          store = [c \in ConvIds |-> IF c = "c1" THEN h ELSE <<>>]
    /\ chats \in [ChatIds -> UNION { ChatRequests(i) : i \in ChatIds }]
    /\ \A i \in ChatIds : chats[i] \in ChatRequests(i)
    /\ loader = NoLoader

\* route.ts:572: the request reads the stored history.
ChatStart(i) ==
    /\ chats[i].pc = "start"
    /\ chats' = [chats EXCEPT ![i].pc = "running",
                              ![i].existing = store[conversationId]]
    /\ UNCHANGED <<store, loader>>
    /\ SharedFrame

\* route.ts:752-757: the request appends its batch; or it ends with an
\* error and appends nothing.
ChatFinish(i) ==
    /\ chats[i].pc = "running"
    /\ \/ /\ store' = [store EXCEPT ![conversationId] =
                  StoreAppend(AppendBase(@, chats[i].existing),
                              ToAppend(chats[i].messages, chats[i].reply),
                              MAX_STORED_MESSAGES)]
          /\ chats' = [chats EXCEPT
                ![i].pc = "done",
                ![i].order =
                    1 + Cardinality({ j \in ChatIds : chats[j].pc = "done" })]
       \/ /\ chats' = [chats EXCEPT ![i].pc = "failed"]
          /\ UNCHANGED store
    /\ UNCHANGED loader
    /\ SharedFrame

ChatsNext ==
    \/ \E i \in ChatIds : ChatStart(i)
    \/ \E i \in ChatIds : ChatFinish(i)

ChatsSpec == ChatsInit /\ [][ChatsNext]_vars

\* history/route.ts:58-61: the store is read; an empty history is looked
\* up in the backend.
HistoryStart ==
    /\ loader.pc = "start"
    /\ loader' = [pc |-> IF Len(store[conversationId]) = 0
                         THEN "backend" ELSE "done",
                  history |-> store[conversationId]]
    /\ UNCHANGED <<store, chats>>
    /\ SharedFrame

\* history/route.ts:61-69: the backend has answered; what it holds is set.
HistoryBackend ==
    /\ loader.pc = "backend"
    /\ \E loaded \in LoadedHistories :
          IF Len(loaded) > 0
          THEN /\ store' = [store EXCEPT ![conversationId] = loaded]
               /\ loader' = [pc |-> "done", history |-> loaded]
          ELSE /\ loader' = [loader EXCEPT !.pc = "disk"]
               /\ UNCHANGED store
    /\ UNCHANGED chats
    /\ SharedFrame

\* history/route.ts:69-74: the disk has answered; what it holds is set.
HistoryDisk ==
    /\ loader.pc = "disk"
    /\ \E loaded \in LoadedHistories :
          IF Len(loaded) > 0
          THEN /\ store' = [store EXCEPT ![conversationId] = loaded]
               /\ loader' = [pc |-> "done", history |-> loaded]
          ELSE /\ loader' = [loader EXCEPT !.pc = "done"]
               /\ UNCHANGED store
    /\ UNCHANGED chats
    /\ SharedFrame

HistoryInit ==
    /\ Locals
    /\ pc = "shared"
    /\ userToken = "tokA"
    /\ apiKey = TRUE
    /\ conversationId = "c1"
    /\ messages = <<>>
    /\ toolInput = NoExec
    /\ finds = <<>>
    /\ lastAppend = NoAppend
    /\ store = [c \in ConvIds |-> <<>>]
    /\ chats \in [ChatIds -> UNION { ChatRequests(i) : i \in ChatIds }]
    /\ \A i \in ChatIds : chats[i] \in ChatRequests(i)
    /\ loader = [pc |-> "start", history |-> <<>>]

HistoryNext ==
    \/ \E i \in ChatIds : ChatStart(i)
    \/ \E i \in ChatIds : ChatFinish(i)
    \/ HistoryStart
    \/ HistoryBackend
    \/ HistoryDisk

HistorySpec == HistoryInit /\ [][HistoryNext]_vars

\* ================================================================ claims
\* The executor call of the latest step is a create_content or edit_content
\* call whose arguments pass the executor's argument check, the changes of
\* an edit being an object.
GatedCall ==
    /\ lastExec.name \in {"create_content", "edit_content"}
    /\ lastExec.name = "create_content" => isCreateContentArgs(lastExec.args)
    /\ lastExec.name = "edit_content" =>
          /\ isEditContentArgs(lastExec.args)
          /\ lastExec.args.changes # NullValue

\* The handler answered with the error of a failed model call.
ModelFailureAnswered ==
    /\ pc = "done"
    /\ "error" \in DOMAIN response
    /\ history.failure # NoFailure

\* C1: a create_content or edit_content call whose arguments do not carry
\* confirm = true (confirm absent, false, or any other value) returns a
\* preview with requires_confirmation and sends no write request.
C1_UnconfirmedCallPreviews ==
    (GatedCall /\ Member(lastExec.args, "confirm") # "true")
        => (IsPreview(lastExec.call) /\ Writes(lastExec.call.requests) = <<>>)

\* C2: every write request sent to the Content Backend is preceded by an
\* earlier round in which the same tool returned a preview; stated for the
\* conversation c2, which no earlier request has touched.
C2_WritePrecededByPreview ==
    (/\ conversationId = "c2"
     /\ lastExec.name \in ToolNames
     /\ Writes(lastExec.call.requests) # <<>>)
        => lastExec.name \in history.previewed

\* C3: for a pair (tool name, argument JSON) requested more than once in a
\* round the executor is invoked once in that round, whatever the outcome
\* of the first invocation: no round key is invoked twice.
C3_InvokedOncePerRound ==
    \A a, b \in 1..Len(invoked) : a # b => invoked[a] # invoked[b]

\* C4: argument text that is not valid JSON yields an error tool result for
\* that call and the request is not aborted: the handler never ends on a
\* tool call of the round with an error answer for its argument text.
C4_InvalidJsonNotFatal ==
    ~ (/\ pc = "done"
       /\ response.status # 200
       /\ toolCallIndex \in 1..Len(ToolCallsOf(assistantMessage))
       /\ ~JSONparse(ArgumentText(
              ToolCallsOf(assistantMessage)[toolCallIndex].arguments)).ok)

\* C5: once the first model call has succeeded, the failure of a later
\* model call is never answered as an error.
C5_LaterModelFailureNotAnError ==
    (history.modelCalls >= 1 /\ ModelFailureAnswered) => response.status = 200

\* C6 as stated: every request sent to the Language-Model Service carries
\* at most MAX_CONTEXT_MESSAGES messages.
C6_EveryModelCallBounded ==
    Len(llmRequest.messages) <= MAX_CONTEXT_MESSAGES

\* C6 as amended: the first model call carries at most MAX_CONTEXT_MESSAGES
\* messages; a follow-up call carries the context of the first call, the
\* assistant message and one tool message for each tool call of the round,
\* and the forced-text call carries the messages of the follow-up call.
C6_ModelCallSizes ==
    /\ llmRequest.call = "first" =>
          /\ llmRequest.messages = requestMessages
          /\ Len(llmRequest.messages) <= MAX_CONTEXT_MESSAGES
    /\ pc = "followup" =>
          Len(llmRequest.messages) =
              Len(requestMessages) + 1 + Len(ToolCallsOf(assistantMessage))
    /\ llmRequest.call \in {"followup", "forced"} =>
          /\ Len(requestMessages) <= MAX_CONTEXT_MESSAGES
          /\ Len(llmRequest.messages) > Len(requestMessages) + 1
          /\ Len(llmRequest.messages) <= MAX_CONTEXT_MESSAGES + 1 + MaxCalls

\* A follow-up call that carries more than MAX_CONTEXT_MESSAGES messages.
C6_Witness ==
    /\ pc = "followup"
    /\ Len(llmRequest.messages) > MAX_CONTEXT_MESSAGES

\* C7: when the joined history exceeds the maximum, the context of the
\* first model call is its leading system message followed by its most
\* recent messages; whenever the joined history contains a system message
\* the context starts with it.
C7_ContextKeepsSystem ==
    pc = "first" =>
        LET joined == BaseHistory(store[conversationId]) \o messages
        IN  /\ Len(joined) > MAX_CONTEXT_MESSAGES =>
                 /\ joined[1].role = "system"
                 /\ requestMessages =
                       <<joined[1]>> \o SliceLast(joined, MAX_CONTEXT_MESSAGES - 1)
            /\ HasSystem(joined) => requestMessages[1].role = "system"

\* The text r is the text c with some of its placeholder links filled in.
FilledFrom(r, c) ==
    /\ Len(r) = Len(c)
    /\ \A k \in 1..Len(c) :
          \/ r[k] = c[k]
          \/ /\ IsPlaceholder(c[k])
             /\ "url" \in DOMAIN r[k]
             /\ r[k].label = c[k].label

\* C8: at most five rounds are started; when the model still requests tool
\* calls after the fifth round, no tool is executed any more and the answer
\* is the last assistant content (its placeholder links filled in), or the
\* fallback text when that content is empty.
C8_RoundLimit ==
    /\ [](safetyCounter <= 5)
    /\ [][ (/\ pc = "final"
            /\ safetyCounter = 5
            /\ Len(ToolCallsOf(assistantMessage)) > 0)
           => /\ pc' = "done"
              /\ lastExec' = lastExec
              /\ invoked' = invoked
              /\ toolResults' = toolResults
              /\ response'.status = 200
              /\ IF Len(assistantMessage.content) = 0
                 THEN response'.message.content = FALLBACK_TOOLS
                 ELSE IsBlank(assistantMessage.content)
                      \/ FilledFrom(response'.message.content,
                                    assistantMessage.content) ]_vars

\* The fifth round is over, the model asked for tools again, and the
\* handler has answered.
C8_Witness ==
    /\ pc = "done"
    /\ safetyCounter = 5
    /\ llmRequest.call = "followup"
    /\ response.status = 200
    /\ Len(ToolCallsOf(response.message)) > 0

\* C9: every chat request eventually produces a response, also when the
\* model requests tool calls in every answer.
C9_Terminates == <>(pc = "done")

\* A request whose every model answer asked for a tool has been answered.
C9_Witness ==
    /\ pc = "done"
    /\ safetyCounter = 5
    /\ history.modelCalls = 6
    /\ response.status = 200

\* C10: when a tool call of the round has an unknown name or its executor
\* throws, an error tool result is emitted, and the handler answers with
\* status 200 unless a model call fails.
C10_ToolErrorNotFatal ==
    (/\ pc = "done"
     /\ \E k \in 1..Len(toolResults) : toolResults[k].content[1] = Text("{error}")
     /\ ~ModelFailureAnswered)
        => response.status = 200

\* C11: when the first model call fails with an HTTP error of the service,
\* the handler answers with the status of the service, which is not 200, and
\* with the error text of the service (the message of the failed request
\* when the body of the service carries none).
C11_FirstCallFailureSurfaced ==
    (/\ pc = "done"
     /\ history.modelCalls = 0
     /\ history.failure.kind = "http")
        => /\ response.status = history.failure.status
           /\ response.status # 200
           /\ DOMAIN response = {"status", "error"}
           /\ response.error =
                 IF history.failure.errorIs \in {"string", "object"}
                 THEN history.failure.upstream
                 ELSE history.failure.message

\* The first model call failed with status 429 and the handler answered.
C11_Witness ==
    /\ pc = "done"
    /\ history.modelCalls = 0
    /\ history.failure.kind = "http"
    /\ response = [status |-> 429, error |-> "rate limited"]

\* C12: a request without a user token is answered with status 401 and a
\* request with a user token but without an API key with status 500; in
\* both cases no model call and no executor call is made.
C12_MissingCredentials ==
    /\ (pc # "start" /\ userToken \in {"undefined", "''"}) =>
          /\ pc = "done"
          /\ response.status = 401
    /\ (pc # "start" /\ userToken \notin {"undefined", "''"} /\ ~apiKey) =>
          /\ pc = "done"
          /\ response.status \in 500..599
    /\ (userToken \in {"undefined", "''"} \/ ~apiKey) =>
          /\ llmRequest = NoRequest
          /\ history = NoHistory
          /\ lastExec = NoExec
          /\ invoked = <<>>

\* A request with a user token was answered while no API key is configured.
C12_Witness ==
    /\ pc = "done"
    /\ userToken = "tokA"
    /\ ~apiKey
    /\ response = [status |-> 500, error |-> "OpenRouter API key is not configured"]

\* C13: the assistant message of every answer with status 200 has content
\* that is neither empty nor blank.
C13_AnswerNeverEmpty ==
    (pc = "done" /\ response.status = 200) =>
        /\ response.message.role = "assistant"
        /\ Len(response.message.content) > 0
        /\ \E k \in 1..Len(response.message.content) :
              response.message.content[k] \notin {Text(""), Text(" ")}

\* The forced-text call answered with empty content and the handler
\* answered with the fallback text.
C13_Witness ==
    /\ pc = "done"
    /\ response.status = 200
    /\ llmRequest.call = "forced"
    /\ response.message.content = FALLBACK_PLAIN

\* The number of placeholder links among the first k tokens of a text.
PlaceholderRank(text, k) ==
    Cardinality({ j \in 1..k : "url" \in DOMAIN text[j] /\ text[j].url = "#" })

\* The links of the items of a search result that are strings with a
\* character other than white space, in item order.
ItemLinks(items) ==
    LET K == { k \in 1..Len(items) :
                 items[k].link \notin {"undefined", "''", " "} }
        nth[n \in 0..Len(items)] ==
            IF n = 0 THEN 0
            ELSE CHOOSE k \in K : k > nth[n - 1] /\ \A j \in K : j > nth[n - 1] => k <= j
    IN  [n \in 1..Cardinality(K) |-> items[nth[n]].link]

\* C14: the links are collected from the results of the executed
\* find_content calls in execution order and item order; in the answer the
\* N-th placeholder link carries the N-th collected link, placeholders
\* beyond the collected links and all other text are as the model wrote
\* them.
C14_PlaceholdersFilledInOrder ==
    /\ [][ pc = "tools" =>
             executedLinks' = executedLinks \o
                 (IF lastExec'.name = "find_content" /\ ~lastExec'.call.threw
                  THEN ItemLinks(lastExec'.call.result.items)
                  ELSE <<>>) ]_vars
    /\ [][ pc # "tools" => executedLinks' = executedLinks ]_vars
    /\ [][ (pc = "final" /\ Len(assistantMessage.content) > 0
                         /\ ~IsBlank(assistantMessage.content)) =>
             LET c == assistantMessage.content
                 r == response'.message.content
             IN  /\ Len(r) = Len(c)
                 /\ \A k \in 1..Len(c) :
                       IF /\ "url" \in DOMAIN c[k]
                          /\ c[k].url = "#"
                          /\ PlaceholderRank(c, k) <= Len(executedLinks)
                       THEN r[k] = [label |-> c[k].label,
                                    url |-> executedLinks[PlaceholderRank(c, k)]]
                       ELSE r[k] = c[k] ]_vars

\* Two searches returned one and two links; the answer carries them in
\* that order and its fourth placeholder is left as it was.
C14_Witness ==
    /\ pc = "done"
    /\ response.status = 200
    /\ response.message.content =
          <<Link("a", "L1"), Text("and"), Link("b", "L2"), Link("c", "L3"),
            Link("d", "#")>>

C16_OneSearchPerTtl ==
    \A i, j \in DOMAIN finds :
        (/\ i < j
         /\ finds[i].pc = "returned"
         /\ finds[j].pc = "returned"
         /\ CacheKey(finds[i].args) = CacheKey(finds[j].args)
         /\ finds[i].now - finds[j].now < TOOL_CACHE_TTL_MS
         /\ finds[j].now - finds[i].now < TOOL_CACHE_TTL_MS)
            => Len(finds[i].requests) + Len(finds[j].requests) = 1

\* C17: a find_content call returns the cached payload only when the cache
\* holds an entry for its key whose expiry is later than the current time;
\* otherwise, also when the expiry equals the current time, it queries the
\* backend.
C17_CacheHitOnlyWhenFresh ==
    \A i \in DOMAIN finds :
        ("query" \in DOMAIN finds[i].args /\ finds[i].pc # "idle") =>
            IF finds[i].seen.present /\ finds[i].seen.expiryMs > finds[i].now
            THEN finds[i].hit /\ finds[i].requests = <<>>
            ELSE /\ ~finds[i].hit
                 /\ Len(finds[i].requests) = 1
                 /\ finds[i].requests[1].method = "GET"

\* A call found an entry that expired in the millisecond of the call and
\* queried the backend.
C17_Witness ==
    \E i \in DOMAIN finds :
        /\ finds[i].pc = "returned"
        /\ finds[i].seen.present
        /\ finds[i].seen.expiryMs = finds[i].now
        /\ Len(finds[i].requests) = 1

\* C18: the expiry of an entry that find_content stores is the time at
\* which it is stored plus the TTL.
C18_ExpiryFromStoreTime ==
    \A i \in DOMAIN finds :
        finds[i].stored.present =>
            finds[i].stored.expiryMs = finds[i].stored.at + TOOL_CACHE_TTL_MS

\* C19: after an append with a limit above 0 the history of the id has at
\* most that many entries and is the end of the former history followed by
\* the appended messages; the histories of the other ids are as before.
C19_AppendKeepsMostRecent ==
    lastAppend.id # "none" =>
        LET id == lastAppend.id
            updated == lastAppend.before[id] \o lastAppend.messages
            kept == Len(store[id])
        IN  /\ kept <= lastAppend.maxMessages
            /\ kept = IF Len(updated) <= lastAppend.maxMessages
                      THEN Len(updated) ELSE lastAppend.maxMessages
            /\ \A k \in 1..kept : store[id][k] = updated[Len(updated) - kept + k]
            /\ \A c \in ConvIds \ {id} : store[c] = lastAppend.before[c]

\* An append that dropped old messages of one conversation while the other
\* conversation has a history.
C19_Witness ==
    /\ lastAppend.id = "c1"
    /\ Len(lastAppend.before["c1"] \o lastAppend.messages) > lastAppend.maxMessages
    /\ lastAppend.maxMessages > 1
    /\ Len(store["c2"]) > 1

\* C20: a follow-up model call carries the bounded context followed by the
\* assistant message and the tool messages of every round so far: at least
\* two messages for each round on top of the context.
C20_FollowupCarriesEveryRound ==
    pc = "followup" =>
        Len(llmRequest.messages) >= Len(requestMessages) + 2 * safetyCounter

\* C21: the executors of a round are invoked one call after the other in
\* the order of tool_calls, and the follow-up call carries the context, the
\* assistant message and then one tool message for each tool call, in the
\* order of the calls, with the id of its call.
C21_ToolMessagesInCallOrder ==
    /\ [][ pc = "tools" =>
             /\ pc' = "tools" => toolCallIndex' = toolCallIndex + 1
             /\ lastExec'.name # "none" =>
                   /\ lastExec'.name =
                         assistantMessage.tool_calls[toolCallIndex].name
                   /\ Len(invoked') = Len(invoked) + 1 ]_vars
    /\ [](pc = "followup" =>
             LET calls == assistantMessage.tool_calls
                 sent == llmRequest.messages
                 n == Len(requestMessages)
             IN  /\ Len(sent) = n + 1 + Len(calls)
                 /\ \A k \in 1..n : sent[k] = requestMessages[k]
                 /\ sent[n + 1] = assistantMessage
                 /\ \A k \in 1..Len(calls) :
                       /\ sent[n + 1 + k].role = "tool"
                       /\ sent[n + 1 + k].tool_call_id = calls[k].id
                       /\ sent[n + 1 + k].name = calls[k].name)

\* A round of two different calls is over: the second tool message answers
\* the second call.
C21_Witness ==
    /\ pc = "followup"
    /\ Len(assistantMessage.tool_calls) = 2
    /\ assistantMessage.tool_calls[1].name = "create_content"
    /\ assistantMessage.tool_calls[2].name = "find_content"
    /\ Len(invoked) = 2
    /\ llmRequest.messages[Len(llmRequest.messages)].tool_call_id = 2

\* C22: when a follow-up answer has neither content nor tool calls, one
\* model call with tool_choice 'none' is made over the messages of the
\* follow-up call; whatever it answers, no tool is executed and no model
\* call is made after it.
C22_ForcedTextCallEndsLoop ==
    /\ [][ (pc = "followup" /\ pc' \notin {"followup", "done"}) =>
             IF Len(assistantMessage'.content) = 0
                /\ Len(ToolCallsOf(assistantMessage')) = 0
             THEN /\ pc' = "forced"
                  /\ llmRequest'.tool_choice = "none"
                  /\ llmRequest'.messages = llmRequest.messages
                  /\ history'.modelCalls = history.modelCalls + 1
             ELSE pc' # "forced" ]_vars
    /\ [][ llmRequest.call = "forced" =>
             /\ llmRequest' = llmRequest
             /\ pc' \in {"final", "done"}
             /\ lastExec' = lastExec
             /\ toolResults' = toolResults
             /\ invoked' = invoked
             /\ safetyCounter' = safetyCounter
             /\ history'.modelCalls <= history.modelCalls + 1
             /\ pc \in {"final", "done"} =>
                   history'.modelCalls = history.modelCalls ]_vars

\* The forced-text call was answered with a request for a tool and the
\* handler answered without executing it.
C22_Witness ==
    /\ pc = "done"
    /\ llmRequest.call = "forced"
    /\ response.status = 200
    /\ Len(ToolCallsOf(response.message)) > 0
    /\ safetyCounter = 1

\* C23: a request that is answered with status 200 leaves as history of its
\* conversation the last MAX_STORED_MESSAGES messages of: the history it
\* found at that moment, the caller's messages, the final assistant
\* message.  Nothing else is stored: no other step changes the store, and
\* no system prompt and no tool message of the request gets into it.
C23_StoredBatch ==
    /\ [][ IF pc = "final"
           THEN LET all == store[conversationId] \o messages
                              \o <<response'.message>>
                    drop == IF Len(all) > MAX_STORED_MESSAGES
                            THEN Len(all) - MAX_STORED_MESSAGES ELSE 0
                IN  /\ response'.status = 200
                    /\ Len(store'[conversationId]) = Len(all) - drop
                    /\ \A k \in 1..(Len(all) - drop) :
                          store'[conversationId][k] = all[drop + k]
                    /\ \A c \in ConvIds \ {conversationId} :
                          store'[c] = store[c]
           ELSE store' = store ]_vars
    /\ [](\A c \in ConvIds : \A k \in 1..Len(store[c]) :
             /\ store[c][k].role \in {"user", "assistant"}
             /\ store[c][k].content # SYSTEM_PROMPT)

\* A request with a tool round on the conversation c1 was answered: the
\* history ends with the caller's message and the answer.
C23_Witness ==
    /\ pc = "done"
    /\ response.status = 200
    /\ conversationId = "c1"
    /\ safetyCounter >= 1
    /\ Len(toolResults) >= 1
    /\ store["c1"] = << Msg("user", Str("u2")), Msg("assistant", Str("a2")),
                        Msg("user", Str("hello")), response.message >>

\* The messages a chat request appends.
Batch(i) == chats[i].messages \o <<chats[i].reply>>

\* C24: when two requests on one conversation overlap (both read the
\* history before either appends) and both are answered, the history is
\* the one they read followed by the batch of the request that completed
\* first and then the batch of the other, each batch whole, cut to the last
\* MAX_STORED_MESSAGES messages.
C24_OverlappingBatchesKept ==
    \A i, j \in ChatIds :
        (/\ chats[i].pc = "done" /\ chats[i].order = 1
         /\ chats[j].pc = "done" /\ chats[j].order = 2
         /\ chats[i].existing = chats[j].existing)
            => LET all == chats[i].existing \o Batch(i) \o Batch(j)
                   drop == IF Len(all) > MAX_STORED_MESSAGES
                           THEN Len(all) - MAX_STORED_MESSAGES ELSE 0
               IN  /\ Len(store["c1"]) = Len(all) - drop
                   /\ \A k \in 1..(Len(all) - drop) :
                         store["c1"][k] = all[drop + k]

\* Two requests overlapped and the second one completed first: the history
\* holds its batch and then the batch of the first, nothing dropped.
C24_Witness ==
    /\ chats[1].pc = "done" /\ chats[1].order = 2
    /\ chats[2].pc = "done" /\ chats[2].order = 1
    /\ chats[1].existing = <<>>
    /\ chats[2].existing = <<>>
    /\ store["c1"] = << ChatUser(2), ChatReply(2), ChatUser(1), ChatReply(1) >>

\* C28: the batch that the chat handler appended last is at the end of the
\* history, whatever a request to the history endpoint does meanwhile.
C28_HistoryRequestKeepsAppends ==
    \A i \in ChatIds :
        (/\ chats[i].pc = "done"
         /\ chats[i].order = Cardinality({ j \in ChatIds : chats[j].pc = "done" }))
            => /\ Len(store["c1"]) >= Len(Batch(i))
               /\ SubSeq(store["c1"], Len(store["c1"]) - Len(Batch(i)) + 1,
                         Len(store["c1"])) = Batch(i)


\* The number of system messages of a message list.
SystemCount(msgs) ==
    Cardinality({ k \in 1..Len(msgs) : msgs[k].role = "system" })

\* C25: the context of the first model call holds at most one system
\* message, and a system message it holds is its first message, whatever the
\* stored history and the caller's messages are.
C25_OneLeadingSystemMessage ==
    pc = "first" =>
        /\ SystemCount(requestMessages) <= 1
        /\ \A k \in 1..Len(requestMessages) :
              requestMessages[k].role = "system" => k = 1

\* C27: a request that is answered with a status other than 200 has sent no
\* create or edit write to the Content Backend.
C27_ErrorMeansNoWrite ==
    (pc = "done" /\ response.status # 200 /\ lastExec # NoExec)
        => Writes(lastExec.call.requests) = <<>>

\* C29: the assistant message that a request appends to the history asks
\* for no tool call.
C29_StoredAssistantHasNoToolCalls ==
    (pc = "done" /\ response.status = 200)
        => LET stored == store[conversationId]
           IN  /\ Len(stored) > 0
               /\ stored[Len(stored)].role = "assistant"
               /\ ToolCallsOf(stored[Len(stored)]) = <<>>

\* C30: a request that is answered with an error (401, 500 or the status
\* of the upstream failure) leaves the history of every conversation as it
\* found it; and only the last step of an answered request writes the store.
C30_ErrorLeavesStore ==
    /\ [][pc # "final" => store' = store]_vars
    /\ []((pc = "done" /\ response.status # 200)
            => store = [c \in ConvIds |-> IF c = "c1" THEN StoredTurns ELSE <<>>])

\* A follow-up model call failed after a tool was executed and the request
\* was answered with the upstream status 503.
C30_Witness ==
    /\ pc = "done"
    /\ response.status = 503
    /\ safetyCounter >= 1
    /\ Len(invoked) > 0
    /\ store = [c \in ConvIds |-> IF c = "c1" THEN StoredTurns ELSE <<>>]


\* C26: the result that find_content returns to a request comes from a
\* search that the backend did with the userToken of that request: a result
\* cached for one token is never returned to a request with another.
C26_ResultFromOwnToken ==
    \A i \in DOMAIN finds :
        finds[i].pc = "returned" => finds[i].from = finds[i].token

====
